---------------------------- MODULE Spec2Model ----------------------------
(***************************************************************************)
(* Model of the SAP AI Core provider (src/src/api/providers/sap-ai-core.ts, *)
(* the BAS LLM proxy and the earlier provider revision under src/unnamed).  *)
(*                                                                         *)
(* The specifications of the module:                                       *)
(*   SpecCreds     - credential resolution at construction (setupAiCore), *)
(*                   with the warm-up getDeployments calls it starts       *)
(*   SpecProxy     - llmRequestBASProxy: the completion request in its     *)
(*                   steps and the hand-written SSE parser                 *)
(*   Spec          - one adapter instance: discovery fetch, modelsReady,   *)
(*                   concurrent createMessage calls under the retry wrapper*)
(*   SpecAdapter   - one adapter from construction to its calls            *)
(*   SpecPure      - the message normalizers, the request createMessage    *)
(*                   builds after its wait, and direct getModelsFromSDK    *)
(*                   calls, each on one input                              *)
(*   SpecStreams   - the two streaming transports side by side             *)
(*   SpecProxyLife - the proxy generator and the resources it holds        *)
(*   SpecDeployments - constructions, getDeployments calls and the static  *)
(*                   deployment list                                       *)
(***************************************************************************)
EXTENDS Naturals, Integers, Sequences, FiniteSets, TLC

VARIABLES
    \* ---- credential resolution (process-wide state and one setup record)
    credsFile,      \* the file ~/ai-core-creds.json as found on disk
    buildCode,      \* devspace.isBuildCode()
    env,            \* process.env["AICORE_SERVICE_KEY"]
    adapters,       \* number of adapters constructed so far in the process
    last,           \* what the latest construction did
    \* ---- one run of the generator llmRequestBASProxy
    body,           \* the lines the response stream delivers
    response,       \* what requestCompletion returned: "none" until asked
    pcProxy,        \* "start", "resolving", "posting", "reading", "done", "stopped", "failed"
    lineIdx,        \* number of lines taken from the line reader
    out,            \* the events yielded to the consumer, in order
    proxyErr,       \* whether the generator raised an error
    rlOpen,         \* whether the readline interface is open
    respOpen,       \* whether the response stream is open
    post,           \* how the completion request went
    \* ---- one adapter instance and the createMessage calls made on it
    selectedId,     \* getModel().id
    fetchOutcome,   \* the discovery request: "inflight", "ok", "failed"
    fetchCount,     \* number of discovery requests issued so far
    listed,         \* the callers that asked getModelsFromSDK directly
    formattedModels,\* this.formattedModels
    modelsReady,    \* whether the promise this.modelsReady has settled
    pc,             \* per call: where the wrapped generator stands
    attempt,        \* per call: the attempt the retry wrapper is running
    events,         \* per call: the events yielded to the caller, in order
    path,           \* per call: "none", "streaming", "buffered"
    chunks,         \* per call: chunks received in the current attempt
    content,        \* per call: what the buffered call's getContent() gave
    err,            \* per call: the error surfaced to the caller
    early,          \* per call: whether it started before modelsReady settled
    \* ---- one application of a pure function of the provider
    applied,        \* the function that was applied, "none" before
    arg,            \* its input
    res,            \* what it returned or raised
    \* ---- the deployment list of the proxy and the calls that ask for it
    deployments,    \* the static field BASLLMProxy.deployments
    getCalls,       \* the getDeployments calls made so far, each with where it stands
    everStored      \* whether a non-empty list has been stored so far

credVars == <<credsFile, buildCode, env, adapters, last>>

proxyVars ==
    <<body, response, pcProxy, lineIdx, out, proxyErr, rlOpen, respOpen, post>>

fetchVars ==
    <<selectedId, fetchOutcome, fetchCount, listed, formattedModels, modelsReady>>

callVars == <<pc, attempt, events, path, chunks, content, err, early>>

lifeVars == <<fetchVars, callVars>>

pureVars == <<applied, arg, res>>

deployVars == <<deployments, getCalls, everStored>>

vars == <<credVars, proxyVars, lifeVars, pureVars, deployVars>>

(***************************************************************************)
(* Bounds                                                                  *)
(***************************************************************************)
MaxAdapters == 2
MaxLines == 3
RetryBudget == 2
MaxChunks == 2
MaxModels == 2
MaxGets == 3

(***************************************************************************)
(* JavaScript values used by the credential code                           *)
(***************************************************************************)
\* A property that the JSON document does not carry reads as undefined.
Undefined == "<undefined>"

\* Property values a credentials document may hold: absent, "", or a value.
FieldValues == {Undefined, "", "v"}

\* JavaScript truthiness of a property value (!x is the negation).
Truthy(v) == v \notin {Undefined, ""}

\* The value of parsed.serviceurls: absent, or an object with AI_API_URL.
ServiceUrls == [present : BOOLEAN, AI_API_URL : FieldValues]

\* A parsed credentials document. isNull is the JSON text "null", on which
\* every property access throws; extra stands for properties beyond the
\* four required ones.
Docs ==
    [isNull : {FALSE}, clientid : FieldValues, clientsecret : FieldValues,
     url : FieldValues,
     serviceurls : {s \in ServiceUrls : s.present \/ s.AI_API_URL = Undefined},
     extra : BOOLEAN]
    \cup
    {[isNull |-> TRUE, clientid |-> Undefined, clientsecret |-> Undefined,
      url |-> Undefined,
      serviceurls |-> [present |-> FALSE, AI_API_URL |-> Undefined],
      extra |-> FALSE]}

NoDoc == CHOOSE d \in Docs : d.isNull

\* A text: either JSON (a document, possibly pretty-printed) or not JSON.
Texts ==
    [json : {TRUE}, doc : Docs, pretty : BOOLEAN]
    \cup {[json |-> FALSE, doc |-> NoDoc, pretty |-> FALSE]}

Garbage == [json |-> FALSE, doc |-> NoDoc, pretty |-> FALSE]

\* JSON.parse: throws on text that is not JSON, drops the formatting.
JSONparse(text) ==
    IF text.json THEN [threw |-> FALSE, value |-> text.doc]
    ELSE [threw |-> TRUE, value |-> NoDoc]

\* JSON.stringify: the compact text of a document.
JSONstringify(doc) == [json |-> TRUE, doc |-> doc, pretty |-> FALSE]

\* The credentials file: absent, or present with some contents.
Files ==
    [exists : {TRUE}, text : Texts]
    \cup {[exists |-> FALSE, text |-> Garbage]}

\* process.env slot: unset, or a string.
EnvUnset == [set |-> FALSE, text |-> Garbage]

(***************************************************************************)
(* loadAiCoreCredentials                                                   *)
(***************************************************************************)
\* An Error: its message is a fixed text followed by a list of field names.
NoError == [text |-> "", list |-> <<>>]

\* lines 63-77: the missing-credential checks, in order
missingCredentials(parsed) ==
    (IF ~Truthy(parsed.clientid) THEN <<"clientid">> ELSE <<>>)
    \o (IF ~Truthy(parsed.clientsecret) THEN <<"clientsecret">> ELSE <<>>)
    \o (IF ~Truthy(parsed.url) THEN <<"url">> ELSE <<>>)
    \o (IF ~parsed.serviceurls.present THEN <<"serviceurls">>
        ELSE IF ~Truthy(parsed.serviceurls.AI_API_URL)
             THEN <<"serviceurls.AI_API_URL">>
             ELSE <<>>)

\* lines 60-83: the body of the try block. Result: threw, error, value.
loadTryBody(fileContents) ==
    LET p == JSONparse(fileContents) IN
    IF p.threw
    THEN [threw |-> TRUE, value |-> Garbage,
          error |-> [text |-> "SyntaxError", list |-> <<>>]]
    ELSE IF p.value.isNull
    THEN [threw |-> TRUE, value |-> Garbage,
          error |-> [text |-> "TypeError", list |-> <<>>]]
    ELSE IF Len(missingCredentials(p.value)) > 0
    THEN [threw |-> TRUE, value |-> Garbage,
          error |-> [text |-> "Credentials file is missing required properties: ",
                     list |-> missingCredentials(p.value)]]
    ELSE [threw |-> FALSE, value |-> JSONstringify(p.value), error |-> NoError]

\* lines 84-86: the catch block replaces whatever was thrown in the try
\* block; the caught error is passed as the options argument and an Error
\* object carries no own "cause", so nothing of it survives.
loadCatch(e) == [text |-> "Failed to parse ai core credentials file:", list |-> <<>>]

\* lines 51-87. Result: returned (a string) / undefined (file absent) / threw.
loadAiCoreCredentials(file) ==
    IF ~file.exists
    THEN [threw |-> FALSE, defined |-> FALSE, value |-> Garbage, error |-> NoError]
    ELSE LET r == loadTryBody(file.text) IN
         IF r.threw
         THEN [threw |-> TRUE, defined |-> FALSE, value |-> Garbage,
               error |-> loadCatch(r.error)]
         ELSE [threw |-> FALSE, defined |-> TRUE, value |-> r.value,
               error |-> NoError]

(***************************************************************************)
(* BASLLMProxy.getDeployments: the calls and the static field             *)
(***************************************************************************)
\* A value of the static field: an array, or undefined.
List(items) == [defined |-> TRUE, items |-> items]

UndefinedList == [defined |-> FALSE, items |-> <<>>]

\* What the GET can answer: no data, data without resources, and data with
\* an empty or a non-empty resources array.
Responses ==
    { [hasData |-> FALSE, resources |-> UndefinedList],
      [hasData |-> TRUE, resources |-> UndefinedList],
      [hasData |-> TRUE, resources |-> List(<<>>)],
      [hasData |-> TRUE, resources |-> List(<<"d1">>)] }

\* Who calls getDeployments: setupAiCore (sap-ai-core.ts line 104, not
\* awaited), getDeploymentUrl on behalf of requestCompletion (part_000
\* line 33), or any other holder of a proxy instance.
Callers == {"setupAiCore", "requestCompletion", "caller"}

\* A variant that asks the proxy every time.
cacheMissAlways(d) == TRUE

\* part_000 line 16: !BASLLMProxy.deployments || BASLLMProxy.deployments.length === 0
cacheMiss(d) == ~d.defined \/ Len(d.items) = 0

\* part_000 line 27: response.data && response.data.resources
storedFrom(response_) ==
    IF ~response_.hasData THEN UndefinedList ELSE response_.resources

NonEmpty(d) == d.defined /\ Len(d.items) > 0

\* part_000 lines 15-21 and 29: a call made while the field holds d. On a
\* cache miss it issues the GET and waits, otherwise it returns the field
\* at once. atStart and afterStore record what the call found.
startedCall(by, d, stored) ==
    IF cacheMiss(d)
    THEN [by |-> by, pc |-> "get", http |-> TRUE, ret |-> UndefinedList,
          atStart |-> d, afterStore |-> stored]
    ELSE [by |-> by, pc |-> "returned", http |-> FALSE, ret |-> d,
          atStart |-> d, afterStore |-> stored]

\* part_000 lines 21-29: the GET of call i is answered; the static field is
\* overwritten and returned
GetDeploymentsAnswered(i) ==
    /\ i \in 1..Len(getCalls)
    /\ getCalls[i].pc = "get"
    /\ \E r \in Responses :
          /\ deployments' = storedFrom(r)
          /\ getCalls' = [getCalls EXCEPT ![i].pc = "returned", ![i].ret = storedFrom(r)]
          /\ everStored' = (everStored \/ NonEmpty(storedFrom(r)))
    /\ UNCHANGED <<credVars, proxyVars, lifeVars, pureVars>>

\* part_000 line 21: the GET of call i raises and the call with it; the
\* field stays
GetDeploymentsRaises(i) ==
    /\ i \in 1..Len(getCalls)
    /\ getCalls[i].pc = "get"
    /\ getCalls' = [getCalls EXCEPT ![i].pc = "raised"]
    /\ UNCHANGED <<deployments, everStored, credVars, proxyVars, lifeVars, pureVars>>

(***************************************************************************)
(* setupAiCore (synchronous, called once by the constructor)               *)
(***************************************************************************)
NoSetup ==
    [op |-> "none", file |-> [exists |-> FALSE, text |-> Garbage],
     envBefore |-> EnvUnset, threw |-> FALSE, error |-> NoError,
     wroteEnv |-> FALSE, proxyCreated |-> FALSE, log |-> "none"]

\* lines 91-109: what a construction does, given the file, the slot and
\* isBuildCode() as it finds them
setupResult(file, envBefore, build) ==
    LET r == loadAiCoreCredentials(file)
        \* line 98: if (creds) - a returned string is never empty
        creds == r.defined
    IN [op |-> "setupAiCore", file |-> file, envBefore |-> envBefore,
        threw |-> r.threw, error |-> r.error,
        wroteEnv |-> creds,
        proxyCreated |-> (~creds /\ build),
        log |-> IF creds THEN "loaded"
                ELSE IF build THEN "fallback"
                ELSE "setup failed"]

\* lines 89-110: what one run of setupAiCore does to the credentials, the
\* proxy and the deployments cache
setupAiCoreBody ==
    /\ adapters < MaxAdapters
    /\ adapters' = adapters + 1
    /\ last' = setupResult(credsFile, env, buildCode)
    /\ env' = IF last'.wroteEnv
              THEN [set |-> TRUE, text |-> loadAiCoreCredentials(credsFile).value]
              ELSE env
    \* lines 103-104: the new proxy's getDeployments is called and not
    \* awaited; on an empty list its GET is in flight when the constructor
    \* returns
    /\ getCalls' = IF last'.proxyCreated
                   THEN Append(getCalls,
                               startedCall("setupAiCore", deployments, everStored))
                   ELSE getCalls
    /\ UNCHANGED <<credsFile, buildCode, deployments, everStored, proxyVars, pureVars>>

\* lines 89-110, run on its own: discovery and the calls are left alone
setupAiCore ==
    /\ setupAiCoreBody
    /\ UNCHANGED lifeVars

\* The options of the earlier provider revision: sapClientid,
\* sapClientsecret, sapAuthUrl, sapApiUrl; JSON.stringify drops the
\* properties that are undefined.
LegacyOptions ==
    {d \in Docs : ~d.isNull /\ d.serviceurls.present /\ ~d.extra
                  /\ d.clientid # "" /\ d.clientsecret = "v" /\ d.url = "v"
                  /\ d.serviceurls.AI_API_URL # ""}

\* src/unnamed/part_001 lines 222-232: the earlier revision's constructor
\* writes the slot from its options, without reading any file.
setupAiCoreEnvVariable ==
    /\ adapters < MaxAdapters
    /\ adapters' = adapters + 1
    /\ \E o \in LegacyOptions :
          /\ env' = [set |-> TRUE, text |-> JSONstringify(o)]
          /\ last' = [op |-> "setupAiCoreEnvVariable", file |-> credsFile,
                      envBefore |-> env, threw |-> FALSE, error |-> NoError,
                      wroteEnv |-> TRUE, proxyCreated |-> FALSE, log |-> "none"]
    /\ UNCHANGED <<credsFile, buildCode, proxyVars, lifeVars, pureVars, deployVars>>

(***************************************************************************)
(* llmRequestBASProxy: the SSE body parser                                 *)
(***************************************************************************)
\* A line is a sequence of tokens. "data:" and " " together spell the six
\* characters of the prefix "data: "; every other token is a run of
\* characters without spaces.
JsonHi == "{\"choices\":[{\"delta\":{\"content\":\"Hi\"}}]}"
JsonYo == "{\"choices\":[{\"delta\":{\"content\":\"Yo\"}}]}"
JsonEmpty == "{\"choices\":[{\"delta\":{\"content\":\"\"}}]}"
JsonRole == "{\"choices\":[{\"delta\":{\"role\":\"assistant\"}}]}"
JsonNoChoices == "{}"
BadJson == "{\"choices\":[{\"del"
DoneMark == "[DONE]"

Lines ==
    { <<"data:", " ", JsonHi>>,
      <<"data:", " ", JsonYo>>,
      <<"data:", " ", JsonEmpty>>,
      <<"data:", " ", JsonRole>>,
      <<"data:", " ", JsonNoChoices>>,
      <<"data:", " ", BadJson>>,
      <<"data:", " ", DoneMark>>,
      <<"data:", " ", DoneMark, " ">>,
      <<"data:", " ", " ", JsonHi, " ">>,
      <<"data:", " ">>,
      <<"data:", JsonYo>>,
      <<JsonHi>>,
      <<DoneMark>>,
      <<>> }

RECURSIVE SeqsUpTo(_, _)
SeqsUpTo(S, n) ==
    IF n = 0 THEN {<<>>}
    ELSE LET shorter == SeqsUpTo(S, n - 1) IN
         shorter \cup {Append(q, x) : q \in {r \in shorter : Len(r) = n - 1}, x \in S}

Bodies == SeqsUpTo(Lines, MaxLines)

\* line.startsWith("data: ")
startsWithData(line) == Len(line) >= 2 /\ line[1] = "data:" /\ line[2] = " "

\* line.slice(6), applied to a line that starts with the prefix
slice6(line) == SubSeq(line, 3, Len(line))

\* String.prototype.trim
RECURSIVE trim(_)
trim(s) ==
    IF s = <<>> THEN s
    ELSE IF Head(s) = " " THEN trim(Tail(s))
    ELSE IF s[Len(s)] = " " THEN trim(SubSeq(s, 1, Len(s) - 1))
    ELSE s

\* A variant of the end-of-stream test that never matches.
isDoneNever(data) == FALSE

\* line 131: data === "[DONE]"
isDone(data) == data = <<DoneMark>>

\* JSON.parse followed by parsed?.choices?.[0]?.delta?.content
\* (lines 136-137): threw, or the delta (Undefined when the path is absent).
parseDelta(data) ==
    IF Len(data) # 1 THEN [threw |-> TRUE, delta |-> Undefined]
    ELSE IF data[1] = JsonHi THEN [threw |-> FALSE, delta |-> "Hi"]
    ELSE IF data[1] = JsonYo THEN [threw |-> FALSE, delta |-> "Yo"]
    ELSE IF data[1] = JsonEmpty THEN [threw |-> FALSE, delta |-> ""]
    ELSE IF data[1] \in {JsonRole, JsonNoChoices} THEN [threw |-> FALSE, delta |-> Undefined]
    ELSE [threw |-> TRUE, delta |-> Undefined]

\* What one pass of the loop body does: leave the loop, yield, raise.
Pass == [brk |-> FALSE, emit |-> FALSE, text |-> "", raise |-> FALSE]

\* A variant of the catch block that lets the parse error end the stream.
onParseErrorRaise == [Pass EXCEPT !.raise = TRUE]

\* lines 144-146: the catch block logs and the loop goes on
onParseError == Pass

\* lines 129-147: the body of the for-await loop for one line
processLine(line) ==
    IF ~startsWithData(line) THEN Pass
    ELSE LET data == trim(slice6(line)) IN
         IF isDone(data) THEN [Pass EXCEPT !.brk = TRUE]
         ELSE LET p == parseDelta(data) IN
              IF p.threw THEN onParseError
              ELSE IF Truthy(p.delta)
                   THEN [Pass EXCEPT !.emit = TRUE, !.text = p.delta]
                   ELSE Pass

\* How a completion request can go: the adapter has no proxy object, the
\* completion URL cannot be resolved because the deployments request
\* raises, the POST raises, or the POST is answered with a status.
NoPost == [kind |-> "none", status |-> 0]

PostOutcomes ==
    { [kind |-> "noProxy", status |-> 0],
      [kind |-> "urlThrew", status |-> 0],
      [kind |-> "postThrew", status |-> 0],
      [kind |-> "status", status |-> 200],
      [kind |-> "status", status |-> 204] }

\* A variant whose catch block raises the POST's exception again.
requestCompletionRethrow(o) ==
    IF o.kind \in {"urlThrew", "postThrew"} THEN [raised |-> TRUE, data |-> "undefined"]
    ELSE IF o.status = 200 THEN [raised |-> FALSE, data |-> "stream"]
    ELSE [raised |-> FALSE, data |-> "undefined"]

\* part_000 lines 80-107: the URL is resolved ahead of the try block (86),
\* the POST and the status test are inside it (90-104)
requestCompletion(o) ==
    IF o.kind = "urlThrew" THEN [raised |-> TRUE, data |-> "undefined"]
    ELSE IF o.kind = "postThrew" THEN [raised |-> FALSE, data |-> "undefined"]
    ELSE IF o.status = 200 THEN [raised |-> FALSE, data |-> "stream"]
    ELSE [raised |-> FALSE, data |-> "undefined"]

\* line 117: this.basLLMProxy?.requestCompletion(model.id, payload)
proxyResponse(o) ==
    IF o.kind = "noProxy" THEN [raised |-> FALSE, data |-> "undefined"]
    ELSE requestCompletion(o)

\* line 117 and part_000 lines 86, 61, 33: the call of this run of the
\* generator among the getDeployments calls
ownCall == CHOOSE i \in 1..Len(getCalls) : getCalls[i].by = "requestCompletion"

\* part_000 lines 33-34: getDeploymentUrl got the list it awaited and
\* searches it; searching undefined raises, as does a raised GET
urlRaises(call) == call.pc = "raised" \/ (call.pc = "returned" /\ ~call.ret.defined)

\* Where the generator stands when an outcome of the request shows: without
\* a proxy object at once (line 117), a failed URL resolution while the
\* list is awaited (part_000 86), the others when the POST is settled (90).
outcomeDue(o) ==
    IF o.kind = "noProxy" THEN pcProxy = "start" /\ ~last.proxyCreated
    ELSE IF o.kind = "urlThrew" THEN pcProxy = "resolving" /\ urlRaises(getCalls[ownCall])
    ELSE pcProxy = "posting"

\* lines 112-117 and part_000 lines 86, 61, 33, 15-21: the generator asks
\* the proxy for the completion; requestCompletion resolves the URL first,
\* which calls getDeployments and waits for it
ProxyRequestStarts ==
    /\ pcProxy = "start"
    /\ last.proxyCreated
    /\ getCalls' = Append(getCalls,
                          startedCall("requestCompletion", deployments, everStored))
    /\ pcProxy' = "resolving"
    /\ UNCHANGED <<body, response, lineIdx, out, proxyErr, rlOpen, respOpen, post,
                   deployments, everStored, credVars, lifeVars, pureVars>>

\* part_000 lines 33-69 and 86-91: the list came back as an array, the URL
\* is built from it (empty when no deployment matches) and the POST is sent
ProxyPostSent ==
    /\ pcProxy = "resolving"
    /\ getCalls[ownCall].pc = "returned" /\ getCalls[ownCall].ret.defined
    /\ pcProxy' = "posting"
    /\ UNCHANGED <<body, response, lineIdx, out, proxyErr, rlOpen, respOpen, post,
                   credVars, lifeVars, pureVars, deployVars>>

\* lines 117-126 and part_000 lines 91-98: the POST is answered with
\* status 200, requestCompletion returns the stream and a readline
\* interface is created over it; body is what the stream will deliver
ProxyRequestOk ==
    /\ pcProxy = "posting"
    /\ \E o \in PostOutcomes :
          /\ outcomeDue(o)
          /\ ~proxyResponse(o).raised /\ proxyResponse(o).data = "stream"
          /\ post' = o
    /\ body' \in Bodies
    /\ response' = "stream"
    /\ pcProxy' = "reading"
    /\ respOpen' = TRUE
    /\ rlOpen' = TRUE
    /\ UNCHANGED <<lineIdx, out, proxyErr, credVars, lifeVars, pureVars, deployVars>>

\* lines 117-121: there is no proxy object, or requestCompletion returned
\* undefined (part_000 lines 99-106: another status, or the POST raised
\* and was caught): the generator returns at once
ProxyRequestUndefined ==
    /\ pcProxy \in {"start", "posting"}
    /\ \E o \in PostOutcomes :
          /\ outcomeDue(o)
          /\ ~proxyResponse(o).raised /\ proxyResponse(o).data = "undefined"
          /\ post' = o
    /\ response' = "undefined"
    /\ pcProxy' = "done"
    /\ UNCHANGED <<body, lineIdx, out, proxyErr, rlOpen, respOpen, credVars, lifeVars,
                   pureVars, deployVars>>

\* line 117 and part_000 line 86: requestCompletion raised ahead of its
\* try block, and the generator with it
ProxyRequestRaises ==
    /\ pcProxy \in {"resolving", "posting"}
    /\ \E o \in PostOutcomes :
          /\ outcomeDue(o)
          /\ proxyResponse(o).raised
          /\ post' = o
    /\ pcProxy' = "failed"
    /\ proxyErr' = TRUE
    /\ UNCHANGED <<body, response, lineIdx, out, rlOpen, respOpen, credVars, lifeVars,
                   pureVars, deployVars>>

\* lines 128-148: the loop takes the next line. src is the number of the
\* line an event came from; the consumer sees only type and text. Leaving
\* the for-await loop by break ends the iteration and closes neither the
\* readline interface nor its input.
ProxyReadLine ==
    /\ pcProxy = "reading"
    /\ lineIdx < Len(body)
    /\ LET r == processLine(body[lineIdx + 1]) IN
       /\ lineIdx' = lineIdx + 1
       /\ out' = IF r.emit
                 THEN Append(out, [type |-> "text", text |-> r.text, src |-> lineIdx + 1])
                 ELSE out
       /\ proxyErr' = r.raise
       /\ pcProxy' = IF r.brk \/ r.raise THEN "done" ELSE "reading"
    /\ UNCHANGED <<body, response, rlOpen, respOpen, post, credVars, lifeVars, pureVars,
                   deployVars>>

\* lines 123-126: the response stream reaches its end, while the loop is
\* still taking lines or after the generator has left it; the stream is
\* destroyed and the readline interface, if nothing closed it, closes
\* itself. The lines read so far stay available to the loop.
ProxyStreamEnds ==
    /\ pcProxy \in {"reading", "done", "stopped"}
    /\ respOpen
    /\ respOpen' = FALSE
    /\ rlOpen' = FALSE
    /\ UNCHANGED <<body, response, pcProxy, lineIdx, out, proxyErr, post, credVars,
                   lifeVars, pureVars, deployVars>>

\* line 128: the interface has closed and every line was taken, the loop
\* and the generator end
ProxyEndOfBody ==
    /\ pcProxy = "reading"
    /\ lineIdx = Len(body)
    /\ ~rlOpen
    /\ pcProxy' = "done"
    /\ UNCHANGED <<body, response, lineIdx, out, proxyErr, rlOpen, respOpen, post,
                   credVars, lifeVars, pureVars, deployVars>>

(***************************************************************************)
(* getModelsFromSDK: the discovery response and its formatting             *)
(***************************************************************************)
\* String.includes over the model ids of the model, as a table.
includes(id, sub) ==
    \/ sub = "meta" /\ id = "meta--llama3-70b-instruct"
    \/ sub = "abap" /\ id = "sap-abap-1"
    \/ sub = "anthropic" /\ id = "anthropic--claude-3.5-sonnet"

ModelIds == {"gpt-4o", "meta--llama3-70b-instruct", "anthropic--claude-3.5-sonnet"}

\* A version entry: isLatest, capabilities and inputTypes (Undefined when
\* the property is absent), streamingSupported ("true", "false" or Undefined).
Version(latest, caps, streamingSupported) ==
    [isLatest |-> latest, hasCapabilities |-> caps # {Undefined},
     capabilities |-> caps \ {Undefined},
     inputTypes |-> IF caps = {Undefined} THEN {} ELSE {"text"},
     streamingSupported |-> streamingSupported]

\* A model resource of the discovery response.
Resource(model, provider, displayName, scenarios, versions) ==
    [model |-> model, provider |-> provider, displayName |-> displayName,
     name |-> model, allowedScenarios |-> scenarios, versions |-> versions]

ResourcePool ==
    { Resource("gpt-4o", "OpenAI", "GPT-4o", {"orchestration", "foundation-models"},
               <<Version(TRUE, {"text-generation", "image-recognition"}, "true")>>),
      Resource("meta--llama3-70b-instruct", "Meta", "", {"orchestration"},
               <<Version(TRUE, {"text-generation"}, "true")>>),
      Resource("anthropic--claude-3.5-sonnet", Undefined, "Claude 3.5 Sonnet",
               {"orchestration"},
               <<Version(FALSE, {"text-generation"}, "true"),
                 Version(TRUE, {"text-generation"}, Undefined)>>),
      Resource("gpt-4o", "OpenAI", "GPT-4o", {"foundation-models"},
               <<Version(TRUE, {"text-generation"}, "true")>>),
      Resource("anthropic--claude-3.5-sonnet", "Anthropic", Undefined, {"orchestration"},
               <<Version(FALSE, {"text-generation"}, "true")>>),
      Resource("gpt-4o", "OpenAI", Undefined, {"orchestration"},
               <<Version(TRUE, {Undefined}, "true")>>) }

SdkResponses == SeqsUpTo(ResourcePool, MaxModels)

\* lines 159-161: the filter predicate
isOrchestrationTextModel(model) ==
    /\ "orchestration" \in model.allowedScenarios
    /\ \E i \in 1..Len(model.versions) :
          /\ model.versions[i].isLatest
          /\ model.versions[i].hasCapabilities
          /\ "text-generation" \in model.versions[i].capabilities

\* lines 158-162: models.resources.filter(...)
RECURSIVE orchestrationModels(_)
orchestrationModels(resources) ==
    IF resources = <<>> THEN <<>>
    ELSE (IF isOrchestrationTextModel(Head(resources)) THEN <<Head(resources)>> ELSE <<>>)
         \o orchestrationModels(Tail(resources))

\* line 167: model.versions.find((v) => v.isLatest === true) || model.versions[0]
latestVersion(model) ==
    IF \E i \in 1..Len(model.versions) : model.versions[i].isLatest
    THEN model.versions[CHOOSE i \in 1..Len(model.versions) :
                            /\ model.versions[i].isLatest
                            /\ \A k \in 1..(i - 1) : ~model.versions[k].isLatest]
    ELSE model.versions[1]

\* lines 168-177: one formatted Model; the || of lines 170 and 171 takes the
\* default for every falsy value, an absent property and "" alike
formatModel(model) ==
    LET v == latestVersion(model) IN
    [id |-> model.model,
     provider |-> IF Truthy(model.provider) THEN model.provider ELSE "SAP",
     name |-> IF Truthy(model.displayName) THEN model.displayName ELSE model.name,
     capabilities |-> v.capabilities,
     inputTypes |-> v.inputTypes,
     streamingSupported |->
         IF includes(model.model, "meta") THEN "false" ELSE v.streamingSupported,
     historySupported |-> ~includes(model.model, "abap"),
     imageRecognitionSupported |-> "image-recognition" \in v.capabilities]

\* a.provider.localeCompare(b.provider) < 0 over the providers of the model
providerRank(p) ==
    CASE p = "Anthropic" -> 1 [] p = "Meta" -> 2 [] p = "OpenAI" -> 3 [] OTHER -> 4

\* Array.prototype.sort with the comparator of line 179 (a stable sort)
RECURSIVE insertByProvider(_, _)
insertByProvider(sorted, m) ==
    IF sorted = <<>> THEN <<m>>
    ELSE IF providerRank(m.provider) < providerRank(Head(sorted).provider)
         THEN <<m>> \o sorted
         ELSE <<Head(sorted)>> \o insertByProvider(Tail(sorted), m)

RECURSIVE sortByProvider(_)
sortByProvider(s) ==
    IF s = <<>> THEN <<>>
    ELSE insertByProvider(sortByProvider(SubSeq(s, 1, Len(s) - 1)), s[Len(s)])

\* lines 157-181: filter, map, sort
formatModels(resources) ==
    LET kept == orchestrationModels(resources) IN
    sortByProvider([i \in 1..Len(kept) |-> formatModel(kept[i])])

(***************************************************************************)
(* The constructor's promise chain                                         *)
(***************************************************************************)
\* lines 153-181, then 34-37: the discovery request answers, the models are
\* formatted, the then-callback stores them and modelsReady settles.
FetchSucceeds ==
    /\ fetchOutcome = "inflight"
    /\ \E resp \in SdkResponses :
          formattedModels' = formatModels(resp)
    /\ fetchOutcome' = "ok"
    /\ modelsReady' = TRUE
    /\ UNCHANGED <<selectedId, fetchCount, listed, callVars, credVars, proxyVars, pureVars,
                   deployVars>>

\* lines 182-185, then 34-37: the request (or the handling of its answer)
\* throws, getModelsFromSDK resolves to [] and the then-callback stores it.
FetchFails ==
    /\ fetchOutcome = "inflight"
    /\ formattedModels' = <<>>
    /\ fetchOutcome' = "failed"
    /\ modelsReady' = TRUE
    /\ UNCHANGED <<selectedId, fetchCount, listed, callVars, credVars, proxyVars, pureVars,
                   deployVars>>

\* The other components that hold the adapter and may ask it for the
\* model list (getModelsFromSDK is a public method).
Listers == {"m1"}

\* lines 151-155: getModelsFromSDK is called on the constructed adapter by
\* someone other than the constructor; the call issues a discovery request
\* of its own. Its answer goes to that caller: nothing stores it in
\* this.formattedModels and modelsReady is not touched.
GetModelsFromSDKCalled(l) ==
    /\ fetchOutcome # "off"
    /\ l \notin listed
    /\ listed' = listed \cup {l}
    /\ fetchCount' = fetchCount + 1
    /\ UNCHANGED <<selectedId, fetchOutcome, formattedModels, modelsReady, callVars,
                   credVars, proxyVars, pureVars, deployVars>>

(***************************************************************************)
(* createMessage under the retry wrapper                                   *)
(***************************************************************************)
\* Two callers use the adapter at the same time.
Calls == {"c1", "c2"}

\* line 218: this.formattedModels.find((m) => m.id === model.id)
findModel(models, id) ==
    IF \E i \in 1..Len(models) : models[i].id = id
    THEN [found |-> TRUE,
          model |-> models[CHOOSE i \in 1..Len(models) :
                              /\ models[i].id = id
                              /\ \A k \in 1..(i - 1) : models[k].id # id]]
    ELSE [found |-> FALSE, model |-> <<>>]

\* A variant of the capability default that assumes streaming.
streamingDefaultTrue(modelData) ==
    IF modelData.found /\ modelData.model.streamingSupported # Undefined
    THEN modelData.model.streamingSupported = "true"
    ELSE TRUE

\* line 219: modelData?.streamingSupported ?? false
streaming(modelData) ==
    IF modelData.found /\ modelData.model.streamingSupported # Undefined
    THEN modelData.model.streamingSupported = "true"
    ELSE FALSE

\* An event as the caller receives it; att and idx record the attempt and
\* the chunk it came from.
Event(text, att, idx) == [type |-> "text", text |-> text, att |-> att, idx |-> idx]

\* A variant of the buffered branch that yields whatever getContent() gave.
bufferedYieldAlways(delta, att) == <<Event(delta, att, 1)>>

\* lines 235-238: the buffered branch yields its content once, if truthy
bufferedYield(delta, att) ==
    IF Truthy(delta) THEN <<Event(delta, att, 1)>> ELSE <<>>

\* A variant of the retry decision that ignores what was already yielded.
shouldRetryAlways(yielded, att) == att < RetryBudget

\* The retry wrapper's decision when the wrapped generator throws: retry
\* only before the first event and while attempts remain.
shouldRetry(yielded, att) == yielded = <<>> /\ att < RetryBudget

\* The caller invokes createMessage: the wrapper starts the first attempt,
\* which runs up to `await this.modelsReady` (line 194).
CallStart(c) ==
    /\ pc[c] = "idle"
    /\ pc' = [pc EXCEPT ![c] = "await"]
    /\ attempt' = [attempt EXCEPT ![c] = 1]
    /\ early' = [early EXCEPT ![c] = ~modelsReady]
    /\ UNCHANGED <<events, path, chunks, content, err, fetchVars, credVars, proxyVars, pureVars,
                   deployVars>>

\* A variant that asks for the models again when they are not there yet.
AwaitRefetch(c) ==
    /\ pc[c] = "await"
    /\ IF modelsReady
       THEN /\ path' = [path EXCEPT ![c] =
                           IF streaming(findModel(formattedModels, selectedId))
                           THEN "streaming" ELSE "buffered"]
            /\ pc' = [pc EXCEPT ![c] = "requesting"]
            /\ UNCHANGED fetchCount
       ELSE /\ fetchCount' = fetchCount + 1
            /\ pc' = [pc EXCEPT ![c] = "refetch"]
            /\ UNCHANGED path
    /\ UNCHANGED <<attempt, events, chunks, content, err, early, selectedId,
                   fetchOutcome, listed, formattedModels, modelsReady, credVars, proxyVars,
                   pureVars, deployVars>>

\* A variant that does not wait for modelsReady.
AwaitSkipped(c) ==
    /\ pc[c] = "await"
    /\ path' = [path EXCEPT ![c] =
                   IF streaming(findModel(formattedModels, selectedId))
                   THEN "streaming" ELSE "buffered"]
    /\ pc' = [pc EXCEPT ![c] = "requesting"]
    /\ UNCHANGED <<attempt, events, chunks, content, err, early, fetchVars,
                   credVars, proxyVars, pureVars, deployVars>>

\* lines 194-233: modelsReady has settled; the call looks its model up in
\* the cache, picks the branch and sends the request to the backend.
AwaitModelsReady(c) ==
    /\ pc[c] = "await"
    /\ modelsReady
    /\ path' = [path EXCEPT ![c] =
                   IF streaming(findModel(formattedModels, selectedId))
                   THEN "streaming" ELSE "buffered"]
    /\ pc' = [pc EXCEPT ![c] = "requesting"]
    /\ UNCHANGED <<attempt, events, chunks, content, err, early, fetchVars,
                   credVars, proxyVars, pureVars, deployVars>>

\* The wrapped generator threw with error e: the wrapper retries or
\* surfaces the error.
Thrown(c, e) ==
    IF shouldRetry(events[c], attempt[c])
    THEN /\ pc' = [pc EXCEPT ![c] = "await"]
         /\ attempt' = [attempt EXCEPT ![c] = attempt[c] + 1]
         /\ chunks' = [chunks EXCEPT ![c] = 0]
         /\ path' = [path EXCEPT ![c] = "none"]
         /\ err' = err
    ELSE /\ pc' = [pc EXCEPT ![c] = "failed"]
         /\ err' = [err EXCEPT ![c] = e]
         /\ UNCHANGED <<attempt, chunks, path>>

\* lines 222 and 232: the request is rejected (connection, auth, 5xx)
RequestFails(c) ==
    /\ pc[c] = "requesting"
    /\ Thrown(c, "transport")
    /\ UNCHANGED <<events, content, early, fetchVars, credVars, proxyVars, pureVars,
                   deployVars>>

\* line 222: orchestrationClient.stream resolves, the stream is open
StreamOpens(c) ==
    /\ pc[c] = "requesting"
    /\ path[c] = "streaming"
    /\ pc' = [pc EXCEPT ![c] = "streaming"]
    /\ UNCHANGED <<attempt, events, path, chunks, content, err, early, fetchVars,
                   credVars, proxyVars, pureVars, deployVars>>

\* A variant that hands a chunk's event to the caller ahead of the events
\* of the chunks that arrived before it.
ChunkArrivesPrepend(c) ==
    /\ pc[c] = "streaming"
    /\ chunks[c] < MaxChunks
    /\ \E delta \in {"a", "", Undefined} :
          events' = [events EXCEPT ![c] =
                        IF Truthy(delta)
                        THEN <<Event(delta, attempt[c], chunks[c] + 1)>> \o @
                        ELSE @]
    /\ chunks' = [chunks EXCEPT ![c] = @ + 1]
    /\ UNCHANGED <<pc, attempt, path, content, err, early, fetchVars, credVars, proxyVars, pureVars,
                   deployVars>>

\* lines 225-230: a chunk arrives; its delta is yielded if truthy
ChunkArrives(c) ==
    /\ pc[c] = "streaming"
    /\ chunks[c] < MaxChunks
    /\ \E delta \in {"a", "", Undefined} :
          events' = [events EXCEPT ![c] =
                        IF Truthy(delta)
                        THEN Append(@, Event(delta, attempt[c], chunks[c] + 1))
                        ELSE @]
    /\ chunks' = [chunks EXCEPT ![c] = @ + 1]
    /\ UNCHANGED <<pc, attempt, path, content, err, early, fetchVars, credVars, proxyVars, pureVars,
                   deployVars>>

\* line 225: the stream ends, the generator returns
StreamEnds(c) ==
    /\ pc[c] = "streaming"
    /\ pc' = [pc EXCEPT ![c] = "done"]
    /\ UNCHANGED <<attempt, events, path, chunks, content, err, early, fetchVars,
                   credVars, proxyVars, pureVars, deployVars>>

\* line 225: the stream breaks while it is being read
StreamFails(c) ==
    /\ pc[c] = "streaming"
    /\ Thrown(c, "transport")
    /\ UNCHANGED <<events, content, early, fetchVars, credVars, proxyVars, pureVars,
                   deployVars>>

\* lines 232-238: the buffered call answers; non-empty content is yielded
\* at line 237 and the generator stays suspended there until the caller
\* asks for the next value; with empty or no content nothing is yielded and
\* the generator returns at once
BufferedAnswers(c) ==
    /\ pc[c] = "requesting"
    /\ path[c] = "buffered"
    /\ \E delta \in {"full", "", Undefined} :
          /\ content' = [content EXCEPT ![c] = delta]
          /\ events' = [events EXCEPT ![c] = @ \o bufferedYield(delta, attempt[c])]
          /\ pc' = [pc EXCEPT ![c] = IF bufferedYield(delta, attempt[c]) = <<>>
                                      THEN "done" ELSE "yielded"]
    /\ UNCHANGED <<attempt, path, chunks, err, early, fetchVars, credVars, proxyVars, pureVars,
                   deployVars>>

\* line 237-239: the caller asks for the next value after the buffered
\* event; the generator resumes behind the yield and returns
BufferedReturns(c) ==
    /\ pc[c] = "yielded"
    /\ pc' = [pc EXCEPT ![c] = "done"]
    /\ UNCHANGED <<attempt, path, chunks, content, events, err, early, fetchVars, credVars,
                   proxyVars, pureVars, deployVars>>

(***************************************************************************)
(* Specifications                                                          *)
(***************************************************************************)
\* No pure function is under study.
PureOff == applied = "off" /\ arg = "off" /\ res = "off"

\* No getDeployments call is under study.
DeploymentsOff == deployments = "off" /\ getCalls = <<>> /\ everStored = FALSE

\* part_000 line 13: the field starts as an empty array, and nothing has
\* called getDeployments
NoDeploymentCall == deployments = List(<<>>) /\ getCalls = <<>> /\ everStored = FALSE

CredsOff ==
    /\ credsFile = [exists |-> FALSE, text |-> Garbage]
    /\ buildCode = FALSE /\ env = EnvUnset /\ adapters = 0 /\ last = NoSetup

ProxyOff ==
    /\ body = <<>> /\ response = "none" /\ pcProxy = "off"
    /\ lineIdx = 0 /\ out = <<>> /\ proxyErr = FALSE
    /\ rlOpen = FALSE /\ respOpen = FALSE /\ post = NoPost

CallsIdle ==
    /\ pc = [c \in Calls |-> "idle"]
    /\ attempt = [c \in Calls |-> 0]
    /\ events = [c \in Calls |-> <<>>]
    /\ path = [c \in Calls |-> "none"]
    /\ chunks = [c \in Calls |-> 0]
    /\ content = [c \in Calls |-> Undefined]
    /\ err = [c \in Calls |-> "none"]
    /\ early = [c \in Calls |-> FALSE]

LifeOff ==
    /\ selectedId = "gpt-4o" /\ fetchOutcome = "off" /\ fetchCount = 0 /\ listed = {}
    /\ formattedModels = <<>> /\ modelsReady = FALSE
    /\ CallsIdle

\* The process before any adapter is constructed.
InitCreds ==
    /\ credsFile \in Files
    /\ buildCode \in BOOLEAN
    /\ env \in {EnvUnset, [set |-> TRUE, text |-> Garbage]}
    /\ adapters = 0
    /\ last = NoSetup
    /\ ProxyOff /\ LifeOff /\ PureOff /\ NoDeploymentCall

NextCreds ==
    \/ setupAiCore
    \/ setupAiCoreEnvVariable
    \/ \E i \in 1..Len(getCalls) : GetDeploymentsAnswered(i)
    \/ \E i \in 1..Len(getCalls) : GetDeploymentsRaises(i)

SpecCreds == InitCreds /\ [][NextCreds]_vars

\* The warm-up call of a construction that took the fallback, settled: its
\* GET was answered with one deployment, or it raised.
WarmupSettled ==
    \/ /\ deployments = List(<<"d1">>) /\ everStored = TRUE
       /\ getCalls = << [startedCall("setupAiCore", List(<<>>), FALSE)
                            EXCEPT !.pc = "returned", !.ret = List(<<"d1">>)] >>
    \/ /\ deployments = List(<<>>) /\ everStored = FALSE
       /\ getCalls = << [startedCall("setupAiCore", List(<<>>), FALSE)
                            EXCEPT !.pc = "raised"] >>

\* The generator has been called on an adapter that was constructed
\* without a credentials file: with a proxy whose warm-up call has settled
\* (lines 101-104), or without one (lines 105-109).
InitProxy ==
    /\ body = <<>>
    /\ response = "none" /\ pcProxy = "start"
    /\ lineIdx = 0 /\ out = <<>> /\ proxyErr = FALSE
    /\ rlOpen = FALSE /\ respOpen = FALSE /\ post = NoPost
    /\ credsFile = [exists |-> FALSE, text |-> Garbage]
    /\ buildCode \in BOOLEAN
    /\ env = EnvUnset
    /\ adapters = 1
    /\ last = setupResult(credsFile, env, buildCode)
    /\ IF last.proxyCreated THEN WarmupSettled ELSE NoDeploymentCall
    /\ LifeOff /\ PureOff

NextProxy ==
    \/ ProxyRequestStarts
    \/ \E i \in 1..Len(getCalls) : GetDeploymentsAnswered(i)
    \/ \E i \in 1..Len(getCalls) : GetDeploymentsRaises(i)
    \/ ProxyPostSent
    \/ ProxyRequestOk
    \/ ProxyRequestUndefined
    \/ ProxyRequestRaises
    \/ ProxyReadLine
    \/ ProxyStreamEnds
    \/ ProxyEndOfBody

SpecProxy == InitProxy /\ [][NextProxy]_vars

\* lines 30-42: the adapter right after its constructor returned: the one
\* discovery request is in flight and modelsReady is pending.
Init ==
    /\ selectedId \in ModelIds
    /\ fetchOutcome = "inflight"
    /\ fetchCount = 1
    /\ listed = {}
    /\ formattedModels = <<>>
    /\ modelsReady = FALSE
    /\ CallsIdle
    /\ CredsOff /\ ProxyOff /\ PureOff /\ DeploymentsOff

Next ==
    \/ FetchSucceeds
    \/ FetchFails
    \/ \E l \in Listers : GetModelsFromSDKCalled(l)
    \/ \E c \in Calls :
          \/ CallStart(c)
          \/ AwaitModelsReady(c)
          \/ RequestFails(c)
          \/ StreamOpens(c)
          \/ ChunkArrives(c)
          \/ StreamEnds(c)
          \/ StreamFails(c)
          \/ BufferedAnswers(c)
          \/ BufferedReturns(c)

Spec == Init /\ [][Next]_vars

(***************************************************************************)
(* Properties                                                              *)
(***************************************************************************)

\* C1: a failure before any text-delta event was yielded is retried until
\* the attempt budget is used up, and a failure after an event was yielded
\* is never retried: the attempt never exceeds the budget, a call that
\* failed without events has used every attempt, and every delivered event
\* comes from the attempt the wrapper is running, each chunk once.
C1_RetryOnlyBeforeFirstEvent ==
    \A c \in Calls :
        /\ attempt[c] <= RetryBudget
        /\ (pc[c] = "failed" /\ events[c] = <<>>) => attempt[c] = RetryBudget
        /\ \A i \in 1..Len(events[c]) : events[c][i].att = attempt[c]
        /\ \A i, j \in 1..Len(events[c]) : i < j => events[c][i].idx < events[c][j].idx

\* One call failed after an event although attempts remained; the other
\* was retried and then delivered text.
C1_Witness ==
    \E c, d \in Calls :
        /\ pc[c] = "failed" /\ events[c] # <<>> /\ attempt[c] < RetryBudget
        /\ pc[d] = "done" /\ events[d] # <<>> /\ attempt[d] = RetryBudget

\* The flag the cache holds for the selected model: true only when the
\* first cached entry with that id reports streaming.
CachedFlagTrue ==
    \E i \in 1..Len(formattedModels) :
        /\ formattedModels[i].id = selectedId
        /\ \A k \in 1..(i - 1) : formattedModels[k].id # selectedId
        /\ formattedModels[i].streamingSupported = "true"

\* C2 as stated: with the cached flag false, a call that completes without
\* error has emitted exactly one event, carrying the buffered content.
C2_ExactlyOneEvent ==
    \A c \in Calls :
        (pc[c] = "done" /\ ~CachedFlagTrue) =>
            /\ Len(events[c]) = 1
            /\ events[c][1].text = content[c]

\* C2 as amended: with the cached flag false, a call that completes without
\* error took the buffered branch and emitted at most one event: exactly
\* one carrying the full buffered content when that content is non-empty,
\* none when the buffered call returned empty or no content.
C2_AtMostOneEvent ==
    \A c \in Calls :
        (pc[c] = "done" /\ ~CachedFlagTrue) =>
            /\ path[c] = "buffered"
            /\ Len(events[c]) <= 1
            /\ content[c] \notin {"", Undefined} =>
                   /\ Len(events[c]) = 1
                   /\ events[c][1].text = content[c]
            /\ content[c] \in {"", Undefined} => events[c] = <<>>

\* A buffered call completed with its one event for a model that is not in
\* the cache, and another completed with none.
C2_Witness ==
    \E c, d \in Calls :
        /\ ~CachedFlagTrue
        /\ pc[c] = "done" /\ Len(events[c]) = 1 /\ events[c][1].text = "full"
        /\ pc[d] = "done" /\ events[d] = <<>> /\ content[d] = ""

\* C3: the constructor's discovery request is the only one the adapter
\* issues on its own: whatever createMessage calls are made and however
\* they interleave with it, the requests issued are that one and one for
\* each direct call of getModelsFromSDK by another component.
C3_SingleFetch == fetchCount = 1 + Cardinality(listed)

\* Both calls started while the request was in flight and have completed,
\* and no request was issued besides the constructor's.
C3_Witness ==
    /\ fetchCount = 1 /\ listed = {}
    /\ \A c \in Calls : early[c] /\ pc[c] = "done"

\* C4: no call reads the cache or contacts a backend before the discovery
\* request has resolved (with models or with the empty list); a call
\* started earlier stays suspended at the await until then.
C4_NoReadBeforeReady ==
    \A c \in Calls :
        /\ (pc[c] \notin {"idle", "await"} \/ path[c] # "none") =>
               (modelsReady /\ fetchOutcome \in {"ok", "failed"})
        /\ (early[c] /\ ~modelsReady) => pc[c] = "await"

\* A call that started before the request resolved has gone on to the
\* backend after it.
C4_Witness ==
    \E c \in Calls : early[c] /\ pc[c] = "requesting" /\ modelsReady

\* C5: when the discovery request fails the cache is the empty list, no
\* call takes the streaming branch and no call ends with an error other
\* than its own transport's.
C5_FetchFailureFallsBack ==
    fetchOutcome = "failed" =>
        /\ modelsReady
        /\ formattedModels = <<>>
        /\ \A c \in Calls :
              /\ path[c] \in {"none", "buffered"}
              /\ err[c] \in {"none", "transport"}
              /\ pc[c] = "failed" => err[c] = "transport"

\* After a failed discovery request a call completed with its content.
C5_Witness ==
    /\ fetchOutcome = "failed"
    /\ \E c \in Calls : pc[c] = "done" /\ path[c] = "buffered" /\ events[c] # <<>>

\* What a data line contributes according to the parsing contract.
LineContent(line) ==
    IF startsWithData(line) /\ ~parseDelta(trim(slice6(line))).threw
    THEN parseDelta(trim(slice6(line))).delta
    ELSE Undefined

\* The payload is exactly [DONE].
PayloadExactlyDone(line) == startsWithData(line) /\ slice6(line) = <<DoneMark>>

\* The payload is [DONE] once the white space around it is removed.
PayloadTrimmedDone(line) == startsWithData(line) /\ trim(slice6(line)) = <<DoneMark>>

\* The texts the contract asks for: the non-empty contents of the data
\* lines before the first end line (exact or trimmed reading of the mark).
RECURSIVE ContractOutput(_, _)
ContractOutput(lines, trimmed) ==
    IF lines = <<>> THEN <<>>
    ELSE IF (trimmed /\ PayloadTrimmedDone(Head(lines)))
            \/ (~trimmed /\ PayloadExactlyDone(Head(lines)))
    THEN <<>>
    ELSE (IF LineContent(Head(lines)) \notin {"", Undefined}
          THEN <<LineContent(Head(lines))>> ELSE <<>>)
         \o ContractOutput(Tail(lines), trimmed)

OutTexts == [i \in 1..Len(out) |-> out[i].text]

\* C6 as stated: the output is the non-empty contents of the data lines
\* before the first line whose payload is exactly [DONE].
C6_OutputUpToExactDone ==
    (pcProxy = "done" /\ response = "stream") =>
        /\ ~proxyErr
        /\ OutTexts = ContractOutput(body, FALSE)

\* C6 as amended: the output is the non-empty contents of the data lines
\* before the first data line whose payload, with surrounding white space
\* removed, is [DONE]; lines without the prefix produce nothing and nothing
\* follows that line.
C6_OutputUpToTrimmedDone ==
    (pcProxy = "done" /\ response = "stream") =>
        /\ ~proxyErr
        /\ OutTexts = ContractOutput(body, TRUE)
        /\ \A i \in 1..Len(out) : out[i].type = "text"

\* The body "data: {..Hi..}", "data: [DONE]", "data: {..Yo..}" was read to
\* its end and gave the one event "Hi".
C6_Witness ==
    /\ pcProxy = "done" /\ response = "stream"
    /\ body = << <<"data:", " ", JsonHi>>, <<"data:", " ", DoneMark>>,
                 <<"data:", " ", JsonYo>> >>
    /\ OutTexts = <<"Hi">>

\* A data line whose payload is neither the end mark nor valid JSON.
Malformed(line) ==
    /\ startsWithData(line)
    /\ ~PayloadTrimmedDone(line)
    /\ parseDelta(trim(slice6(line))).threw

NoEndUpTo(i) == \A k \in 1..i : ~PayloadTrimmedDone(body[k])

\* C7: a data line with invalid JSON yields no event, raises no error and
\* does not end the stream: the stream ends at such a line only when it is
\* the last one, and every valid data line before the end mark, before or
\* after the malformed one, has yielded its event.
C7_MalformedLineSkipped ==
    \A i \in 1..lineIdx :
        (response = "stream" /\ Malformed(body[i]) /\ NoEndUpTo(i)) =>
            /\ ~proxyErr
            /\ \A e \in 1..Len(out) : out[e].src # i
            /\ (pcProxy = "done" /\ lineIdx = i) => i = Len(body)
            /\ pcProxy = "done" =>
                   \A j \in 1..Len(body) :
                       (NoEndUpTo(j) /\ LineContent(body[j]) \notin {"", Undefined}) =>
                           \E e \in 1..Len(out) :
                               out[e].src = j /\ out[e].text = LineContent(body[j])

\* A malformed line between two valid ones: both events, no error.
C7_Witness ==
    /\ pcProxy = "done" /\ response = "stream" /\ ~proxyErr
    /\ body = << <<"data:", " ", JsonHi>>, <<"data:", " ", BadJson>>,
                 <<"data:", " ", JsonYo>> >>
    /\ OutTexts = <<"Hi", "Yo">>

\* The required fields a parsed document lacks.
MissingRequired(doc) ==
    {f \in {"clientid", "clientsecret", "url", "serviceurls.AI_API_URL"} :
        \/ f = "clientid" /\ doc.clientid \in {Undefined, ""}
        \/ f = "clientsecret" /\ doc.clientsecret \in {Undefined, ""}
        \/ f = "url" /\ doc.url \in {Undefined, ""}
        \/ f = "serviceurls.AI_API_URL"
           /\ (~doc.serviceurls.present \/ doc.serviceurls.AI_API_URL \in {Undefined, ""})}

\* The latest construction read a file that parsed to an object.
ReadObject ==
    /\ last.op = "setupAiCore"
    /\ last.file.exists /\ last.file.text.json /\ ~last.file.text.doc.isNull

\* C8: when the file lacks required fields, loading fails with an error
\* whose message names exactly the missing fields.
C8_ErrorNamesMissingFields ==
    (ReadObject /\ MissingRequired(last.file.text.doc) # {}) =>
        /\ last.threw
        /\ {last.error.list[i] : i \in 1..Len(last.error.list)}
               = MissingRequired(last.file.text.doc)

\* C9: the deployment proxy is created only when the file is absent and
\* the process runs in the managed-build environment.
C9_ProxyOnlyWhenFileAbsent ==
    (last.op = "setupAiCore" /\ last.proxyCreated) =>
        (~last.file.exists /\ buildCode)

\* C10: a construction whose credential loading failed leaves the slot as
\* it was; a construction writes the slot only for a file it read and that
\* passed validation, and the slot then holds the whole document of that
\* file. The constructions are those of both revisions of the provider.
C10_SlotWrittenOnlyWhenValid ==
    /\ last.threw => (~last.wroteEnv /\ env = last.envBefore)
    /\ last.wroteEnv =>
           /\ ReadObject /\ MissingRequired(last.file.text.doc) = {}
           /\ env.set
           /\ ~JSONparse(env.text).threw
           /\ JSONparse(env.text).value = last.file.text.doc
    /\ (last.op # "none" /\ ~last.wroteEnv) => env = last.envBefore

(***************************************************************************)
(* One adapter from construction to its calls                              *)
(***************************************************************************)
\* A complete credentials document.
ValidDoc ==
    [isNull |-> FALSE, clientid |-> "v", clientsecret |-> "v", url |-> "v",
     serviceurls |-> [present |-> TRUE, AI_API_URL |-> "v"], extra |-> FALSE]

\* The credentials files the adapter is constructed over: none, and one
\* without serviceurls.AI_API_URL.
SampleFiles ==
    { [exists |-> FALSE, text |-> Garbage],
      [exists |-> TRUE,
       text |-> [json |-> TRUE,
                 doc |-> [ValidDoc EXCEPT !.serviceurls.AI_API_URL = Undefined],
                 pretty |-> FALSE]] }

\* lines 30-42: the constructor, one synchronous run: setupAiCore resolves
\* the credentials (line 32), getModelsFromSDK issues the discovery request
\* (line 33, up to the await of line 153) and the constructor returns with
\* the request in flight
AdapterSetup ==
    /\ adapters = 0
    /\ fetchOutcome = "off"
    /\ setupAiCoreBody
    /\ fetchOutcome' = "inflight"
    /\ fetchCount' = fetchCount + 1
    /\ UNCHANGED <<selectedId, listed, formattedModels, modelsReady, callVars>>

\* line 193: a caller uses the constructed adapter, whatever its other
\* calls are doing
AdapterCallStart(c) ==
    /\ fetchOutcome # "off"
    /\ CallStart(c)

\* The process before the adapter is constructed, the slot unset: the runs
\* start from the files of SampleFiles, in and outside the managed-build
\* environment. What the orchestration and discovery clients answer is
\* theirs to decide: every request of the adapter may be answered or
\* rejected.
InitAdapter ==
    /\ credsFile \in SampleFiles
    /\ buildCode \in BOOLEAN
    /\ env = EnvUnset
    /\ adapters = 0
    /\ last = NoSetup
    /\ ProxyOff /\ LifeOff /\ PureOff /\ NoDeploymentCall

NextAdapter ==
    \/ AdapterSetup
    \/ FetchSucceeds
    \/ FetchFails
    \/ \E l \in Listers : GetModelsFromSDKCalled(l)
    \/ \E i \in 1..Len(getCalls) : GetDeploymentsAnswered(i)
    \/ \E i \in 1..Len(getCalls) : GetDeploymentsRaises(i)
    \/ \E c \in Calls :
          \/ AdapterCallStart(c)
          \/ AwaitModelsReady(c)
          \/ RequestFails(c)
          \/ StreamOpens(c)
          \/ ChunkArrives(c)
          \/ StreamEnds(c)
          \/ StreamFails(c)
          \/ BufferedAnswers(c)
          \/ BufferedReturns(c)

SpecAdapter == InitAdapter /\ [][NextAdapter]_vars

\* C11: every call is served by the transport the resolver fixed at
\* construction: by the proxy transport when the fallback was taken, by the
\* orchestration client otherwise, the same for every call.
C11_ServedByResolvedTransport ==
    \A c \in Calls :
        path[c] # "none" =>
            /\ last.proxyCreated => path[c] = "proxy"
            /\ ~last.proxyCreated => path[c] \in {"streaming", "buffered"}

\* The resolver found no file outside the managed-build environment.
NoTransport == last.op = "setupAiCore" /\ ~last.file.exists /\ ~buildCode

\* C12: when the resolver found no file outside the managed-build
\* environment, construction raises nothing and a call yields no event and
\* never completes normally: it ends with an error.
C12_NoTransportNoEvents ==
    NoTransport =>
        /\ ~last.threw /\ last.log = "setup failed"
        /\ \A c \in Calls :
              /\ events[c] = <<>>
              /\ pc[c] # "done"
              /\ pc[c] = "failed" => err[c] # "none"

(***************************************************************************)
(* Message normalization                                                   *)
(***************************************************************************)
MaxMessages == 2

\* The image_url property of a content part: absent, or an object.
NoImageUrl == [present |-> FALSE, url |-> Undefined, detail |-> Undefined]

ImageUrl(url, detail) == [present |-> TRUE, url |-> url, detail |-> detail]

\* Content parts; a property the part does not have is Undefined.
TextPart(t) ==
    [type |-> "text", text |-> t, image_url |-> NoImageUrl, image |-> Undefined]

ImagePart(imageUrl, image) ==
    [type |-> "image", text |-> Undefined, image_url |-> imageUrl, image |-> image]

ImageUrlPart(imageUrl) ==
    [type |-> "image_url", text |-> Undefined, image_url |-> imageUrl,
     image |-> Undefined]

OtherPart(tag) ==
    [type |-> tag, text |-> Undefined, image_url |-> NoImageUrl, image |-> Undefined]

\* A message content: a string or an array of parts.
Str(s) == [isString |-> TRUE, str |-> s, parts |-> <<>>]

Arr(parts) == [isString |-> FALSE, str |-> Undefined, parts |-> parts]

SampleContents ==
    { Str("hi"),
      Arr(<<TextPart("a"), TextPart("b")>>),
      Arr(<<TextPart("a"), ImagePart(NoImageUrl, Undefined)>>),
      Arr(<<ImagePart(NoImageUrl, "data")>>),
      Arr(<<ImagePart(ImageUrl("u", Undefined), Undefined), TextPart("b")>>),
      Arr(<<ImagePart(ImageUrl("u", "high"), "data")>>),
      Arr(<<ImageUrlPart(ImageUrl("u", Undefined)), TextPart("a")>>),
      Arr(<<ImageUrlPart(ImageUrl("u", "low"))>>),
      Arr(<<TextPart("a"), OtherPart("tool_use")>>) }

\* "developer" is a role none of the normalizers names.
Roles == {"user", "assistant", "system", "tool", "function", "developer"}

Messages == [role : Roles, content : SampleContents]

MessageLists == UNION {[1..n -> Messages] : n \in 0..MaxMessages}

\* What a function returned (value) or raised (error).
Returned(v) == [threw |-> FALSE, error |-> "", value |-> v]

Raised(e, dummy) == [threw |-> TRUE, error |-> e, value |-> dummy]

First(S) == CHOOSE i \in S : \A j \in S : i <= j

\* sap-ai-core.ts lines 268-273: the roles convertMessageParamToSAPMessages keeps
SapRoles == {"user", "assistant", "system", "tool", "function"}

\* A variant that keeps user messages only.
sapRoleSupportedUserOnly(role) == role = "user"

sapRoleSupported(role) == role \in SapRoles

\* sap-ai-core.ts lines 280-293: one content part
sapContentPart(m) ==
    IF m.type = "text" THEN Returned(m)
    ELSE IF m.type = "image"
    THEN Returned(ImageUrlPart(ImageUrl(
             IF m.image_url.present /\ m.image_url.url # Undefined
             THEN m.image_url.url
             ELSE IF m.image # Undefined THEN m.image ELSE "",
             IF m.image_url.present /\ m.image_url.detail # Undefined
             THEN m.image_url.detail
             ELSE "auto")))
    ELSE Raised("Unsupported message type: " \o m.type, m)

\* part_001 line 238: the roles convertCoreMessageToSAPMessages keeps
CoreRoles == {"user", "assistant"}

coreRoleSupported(role) == role \in CoreRoles

\* part_001 lines 244-258: one content part; the image reference gets the
\* part's tag as its url and no detail
coreContentPart(m) ==
    IF m.type = "text" THEN Returned(m)
    ELSE IF m.type = "image"
    THEN Returned(ImageUrlPart(ImageUrl(m.type, Undefined)))
    ELSE Raised("Unsupported message type: " \o m.type, m)

\* part_001 line 53: the filter ahead of the part conversion
azurePartKept(part) == part.type \in {"text", "image_url"}

\* part_001 lines 54-70: one content part that passed the filter; reading
\* image_url.url of a part without image_url raises a TypeError
azureContentPart(part) ==
    IF part.type = "text" THEN Returned(TextPart(part.text))
    ELSE IF part.type = "image_url"
    THEN IF ~part.image_url.present THEN Raised("TypeError", part)
         ELSE Returned(ImageUrlPart(ImageUrl(
                  part.image_url.url,
                  IF Truthy(part.image_url.detail) THEN part.image_url.detail
                  ELSE "auto")))
    ELSE Raised("Unsupported content part type: " \o part.type, part)

\* The part conversion of a normalizer: "sap" is
\* convertMessageParamToSAPMessages, "core" convertCoreMessageToSAPMessages,
\* "azure" convertToAICoreOpenAiMessages.
contentPart(normalizer, m) ==
    IF normalizer = "sap" THEN sapContentPart(m)
    ELSE IF normalizer = "core" THEN coreContentPart(m)
    ELSE azureContentPart(m)

\* The role test of a normalizer.
roleKept(normalizer, role) ==
    IF normalizer = "sap" THEN sapRoleSupported(role) ELSE coreRoleSupported(role)

\* Array.prototype.map over a content: parts are converted in order and
\* the first part that raises ends the conversion.
mapContent(cnt, normalizer) ==
    IF cnt.isString THEN Returned(cnt)
    ELSE LET r == [i \in 1..Len(cnt.parts) |-> contentPart(normalizer, cnt.parts[i])]
             bad == {i \in DOMAIN r : r[i].threw}
         IN IF bad # {} THEN Raised(r[First(bad)].error, Str(""))
            ELSE Returned(Arr([i \in DOMAIN r |-> r[i].value]))

\* messages.map(...).filter((message) => message !== null): messages of
\* roles the normalizer does not keep map to null and are filtered out.
mapMessages(messages, normalizer) ==
    LET r == [i \in 1..Len(messages) |->
                 IF roleKept(normalizer, messages[i].role)
                 THEN LET c == mapContent(messages[i].content, normalizer) IN
                      [threw |-> c.threw, error |-> c.error, isNull |-> FALSE,
                       value |-> [role |-> messages[i].role, content |-> c.value]]
                 ELSE [threw |-> FALSE, error |-> "", isNull |-> TRUE,
                       value |-> [role |-> messages[i].role, content |-> Str("")]]]
        bad == {i \in DOMAIN r : r[i].threw}
        kept == SelectSeq(r, LAMBDA x : ~x.isNull)
    IN IF bad # {} THEN Raised(r[First(bad)].error, <<>>)
       ELSE Returned([i \in DOMAIN kept |-> kept[i].value])

\* sap-ai-core.ts lines 264-299
convertMessageParamToSAPMessages(messages) ==
    mapMessages(messages, "sap")

\* part_001 lines 235-264
convertCoreMessageToSAPMessages(messages) ==
    mapMessages(messages, "core")

\* part_001 lines 42-111: one message (name, tool_calls and tool_call_id
\* are copied as they are and left out here)
azureMessage(message) ==
    IF message.role = "user"
    THEN IF ~message.content.isString
         THEN LET c == mapContent(Arr(SelectSeq(message.content.parts, azurePartKept)),
                                  "azure")
              IN [threw |-> c.threw, error |-> c.error,
                  value |-> [role |-> "user", content |-> c.value]]
         ELSE Returned([role |-> "user",
                        content |-> Str(IF Truthy(message.content.str)
                                        THEN message.content.str ELSE "")])
    ELSE IF message.role \in {"system", "assistant", "tool", "function"}
    THEN Returned([role |-> message.role, content |-> message.content])
    ELSE Returned([role |-> "system", content |-> message.content])

\* part_001 lines 37-113
convertToAICoreOpenAiMessages(openAiMessages) ==
    LET r == [i \in 1..Len(openAiMessages) |-> azureMessage(openAiMessages[i])]
        bad == {i \in DOMAIN r : r[i].threw}
    IN IF bad # {} THEN Raised(r[First(bad)].error, <<>>)
       ELSE Returned([i \in DOMAIN r |-> r[i].value])

\* A request that was never built.
NoRequest == [template |-> <<>>, messagesHistory |-> <<>>]

\* sap-ai-core.ts lines 209-233: what createMessage hands to the
\* orchestration client: the templating module's template and the
\* messagesHistory of the stream()/chatCompletion() request
orchestrationRequest(systemPrompt, messages) ==
    LET h == convertMessageParamToSAPMessages(messages) IN
    IF h.threw THEN Raised(h.error, NoRequest)
    ELSE Returned([template |-> <<[role |-> "system", content |-> Str(systemPrompt)]>>,
                   messagesHistory |-> h.value])

\* The function f is applied to the input and gives r.
Apply(f, r) ==
    /\ applied' = f
    /\ res' = r
    /\ UNCHANGED <<arg, credVars, proxyVars, lifeVars, deployVars>>

ApplyConvertMessageParam ==
    /\ applied = "none"
    /\ arg.kind = "messages"
    /\ Apply("convertMessageParamToSAPMessages",
             convertMessageParamToSAPMessages(arg.messages))

ApplyConvertCoreMessage ==
    /\ applied = "none"
    /\ arg.kind = "messages"
    /\ Apply("convertCoreMessageToSAPMessages",
             convertCoreMessageToSAPMessages(arg.messages))

ApplyConvertToAICoreOpenAi ==
    /\ applied = "none"
    /\ arg.kind = "messages"
    /\ Apply("convertToAICoreOpenAiMessages",
             convertToAICoreOpenAiMessages(arg.messages))

\* sap-ai-core.ts lines 192-194: createMessage is called with the list and
\* waits for modelsReady before it reads it; the caller runs on
CreateMessageWaits ==
    /\ applied = "none"
    /\ arg.kind = "messages"
    /\ applied' = "createMessage waits"
    /\ UNCHANGED <<arg, res, credVars, proxyVars, lifeVars, deployVars>>

\* While the call waits at line 194 the caller appends a message to the
\* array it passed
CallerAppends ==
    /\ applied = "createMessage waits"
    /\ Len(arg.messages) < MaxMessages
    /\ \E m \in Messages : arg' = [arg EXCEPT !.messages = Append(@, m)]
    /\ UNCHANGED <<applied, res, credVars, proxyVars, lifeVars, deployVars>>

\* While the call waits at line 194 the caller empties the array it passed
CallerEmpties ==
    /\ applied = "createMessage waits"
    /\ arg.messages # <<>>
    /\ arg' = [arg EXCEPT !.messages = <<>>]
    /\ UNCHANGED <<applied, res, credVars, proxyVars, lifeVars, deployVars>>

\* sap-ai-core.ts lines 196-233: the wait is over and the request is built
\* from the list as it is now
ApplyOrchestrationRequest ==
    /\ applied = "createMessage waits"
    /\ Apply("createMessage", orchestrationRequest(arg.systemPrompt, arg.messages))

\* sap-ai-core.ts lines 156-181: the discovery request of a direct call is
\* answered; the response is filtered, mapped and sorted and the list
\* returned to the caller
ApplyGetModelsFromSDK ==
    /\ applied = "none"
    /\ arg.kind = "resources"
    /\ listed # {}
    /\ Apply("getModelsFromSDK", Returned(formatModels(arg.resources)))

\* sap-ai-core.ts lines 182-185: the discovery request of a direct call
\* raises; the call returns an empty list
GetModelsFromSDKFails ==
    /\ applied = "none"
    /\ arg.kind = "resources"
    /\ listed # {}
    /\ Apply("getModelsFromSDK, request failed", Returned(<<>>))

\* The inputs: a system prompt with a message list, or a discovery response.
PureArgs ==
    [kind : {"messages"}, systemPrompt : {"S"}, messages : MessageLists,
     resources : {<<>>}]
    \cup [kind : {"resources"}, systemPrompt : {"S"}, messages : {<<>>},
          resources : SdkResponses]

\* A constructed adapter whose own discovery request has failed (lines
\* 33-37 and 182-185), and one input.
InitPure ==
    /\ applied = "none"
    /\ arg \in PureArgs
    /\ res = Returned(<<>>)
    /\ selectedId = "gpt-4o" /\ fetchOutcome = "failed" /\ fetchCount = 1
    /\ listed = {} /\ formattedModels = <<>> /\ modelsReady = TRUE
    /\ CallsIdle
    /\ CredsOff /\ ProxyOff /\ DeploymentsOff

NextPure ==
    \/ ApplyConvertMessageParam
    \/ ApplyConvertCoreMessage
    \/ ApplyConvertToAICoreOpenAi
    \/ CreateMessageWaits
    \/ CallerAppends
    \/ CallerEmpties
    \/ ApplyOrchestrationRequest
    \/ \E l \in Listers : arg.kind = "resources" /\ GetModelsFromSDKCalled(l)
    \/ ApplyGetModelsFromSDK
    \/ GetModelsFromSDKFails

SpecPure == InitPure /\ [][NextPure]_vars

Converters ==
    {"convertMessageParamToSAPMessages", "convertCoreMessageToSAPMessages",
     "convertToAICoreOpenAiMessages"}

SapConverters ==
    {"convertMessageParamToSAPMessages", "convertCoreMessageToSAPMessages"}

\* Some content part of the list has a tag that is neither text nor an
\* image tag (image, or image_url in the OpenAI format).
HasForeignPart(messages) ==
    \E i \in 1..Len(messages) : \E k \in 1..Len(messages[i].content.parts) :
        messages[i].content.parts[k].type \notin {"text", "image", "image_url"}

\* C13: a message list in which some content part has a tag outside
\* {text, image} makes normalization fail with an error; createMessage then
\* builds no request, so it yields no event.
C13_ForeignPartRaises ==
    (applied \in Converters \cup {"createMessage"} /\ HasForeignPart(arg.messages))
        => res.threw

\* The roles the applied normalizer names.
SupportedRoles(f) ==
    IF f = "convertCoreMessageToSAPMessages" THEN CoreRoles ELSE SapRoles

\* C14: a message whose role the normalizer does not support makes
\* normalization fail; it is neither turned into a system message nor
\* dropped.
C14_UnsupportedRoleRaises ==
    (/\ applied \in Converters
     /\ \E i \in 1..Len(arg.messages) :
            arg.messages[i].role \notin SupportedRoles(applied))
        => res.threw

\* The list has only roles the normalizer f supports and only text and
\* image parts.
Normalizable(f, messages) ==
    \A i \in 1..Len(messages) :
        /\ messages[i].role \in SupportedRoles(f)
        /\ \A k \in 1..Len(messages[i].content.parts) :
               messages[i].content.parts[k].type \in {"text", "image"}

\* The output message has the input message's role and text content.
SameRoleAndText(in, outm) ==
    /\ outm.role = in.role
    /\ outm.content.isString = in.content.isString
    /\ in.content.isString => outm.content.str = in.content.str
    /\ Len(outm.content.parts) = Len(in.content.parts)
    /\ \A k \in 1..Len(in.content.parts) :
           in.content.parts[k].type = "text" =>
               /\ outm.content.parts[k].type = "text"
               /\ outm.content.parts[k].text = in.content.parts[k].text

\* C15: for an input of supported roles and text/image parts, the
\* normalized list has the input's length and order and each message keeps
\* its role and its text content.
C15_RoleAndTextPreserved ==
    (applied \in SapConverters /\ Normalizable(applied, arg.messages)) =>
        /\ ~res.threw
        /\ Len(res.value) = Len(arg.messages)
        /\ \A i \in 1..Len(arg.messages) :
               SameRoleAndText(arg.messages[i], res.value[i])

\* Two messages of different roles, the first with a text part and an image
\* part, went through convertMessageParamToSAPMessages.
C15_Witness ==
    /\ applied = "convertMessageParamToSAPMessages"
    /\ Normalizable(applied, arg.messages)
    /\ Len(arg.messages) = 2
    /\ arg.messages[1].role = "assistant" /\ arg.messages[2].role = "user"
    /\ arg.messages[1].content = Arr(<<TextPart("a"), ImagePart(NoImageUrl, Undefined)>>)
    /\ arg.messages[2].content = Str("hi")
    /\ Len(res.value) = 2
    /\ res.value[1].content.parts[1] = TextPart("a")

\* The detail an image part was given, "auto" when it has none.
DetailOrAuto(part) ==
    IF part.image_url.present /\ part.image_url.detail # Undefined
    THEN part.image_url.detail
    ELSE "auto"

\* C16: every content part tagged image is normalized into an image
\* reference that carries a detail: the input's, or "auto".
C16_ImageAlwaysHasDetail ==
    (applied \in SapConverters /\ Normalizable(applied, arg.messages)) =>
        /\ ~res.threw
        /\ \A i \in 1..Len(arg.messages) :
             \A k \in 1..Len(arg.messages[i].content.parts) :
               arg.messages[i].content.parts[k].type = "image" =>
                   /\ res.value[i].content.parts[k].type = "image_url"
                   /\ res.value[i].content.parts[k].image_url.detail
                          = DetailOrAuto(arg.messages[i].content.parts[k])

\* The claim's retention rule: the orchestration scenario is allowed and
\* the version flagged as latest, or the first when none is flagged,
\* advertises text-generation.
ShouldRetain(model) ==
    /\ "orchestration" \in model.allowedScenarios
    /\ Len(model.versions) > 0
    /\ latestVersion(model).hasCapabilities
    /\ "text-generation" \in latestVersion(model).capabilities

\* C18: a model of the discovery response is retained if and only if it
\* meets the retention rule: per model id, as many entries are returned as
\* the response has resources that meet it.
C18_RetainedIffLatestTextGeneration ==
    applied = "getModelsFromSDK" =>
        \A id \in ModelIds :
            Cardinality({j \in 1..Len(res.value) : res.value[j].id = id})
                = Cardinality({i \in 1..Len(arg.resources) :
                                   /\ arg.resources[i].model = id
                                   /\ ShouldRetain(arg.resources[i])})

(***************************************************************************)
(* The two streaming transports side by side                               *)
(***************************************************************************)
\* Either an adapter with its createMessage calls or one run of the proxy
\* generator.
InitStreams == Init \/ InitProxy

\* Calls are made on a constructed adapter only.
NextStreams ==
    \/ FetchSucceeds
    \/ FetchFails
    \/ \E l \in Listers : GetModelsFromSDKCalled(l)
    \/ \E c \in Calls :
          \/ fetchOutcome # "off" /\ CallStart(c)
          \/ AwaitModelsReady(c)
          \/ RequestFails(c)
          \/ StreamOpens(c)
          \/ ChunkArrives(c)
          \/ StreamEnds(c)
          \/ StreamFails(c)
          \/ BufferedAnswers(c)
          \/ BufferedReturns(c)
    \/ NextProxy

SpecStreams == InitStreams /\ [][NextStreams]_vars

\* C19: the events of a call are in the order in which their chunks
\* arrived: along the caller's sequence the (attempt, chunk number) of the
\* source chunk strictly increases, and along the proxy generator's output
\* the number of the source line strictly increases, each event carrying
\* the delta of its own line.
C19_EventsInArrivalOrder ==
    /\ \A c \in Calls : \A i, j \in 1..Len(events[c]) :
          i < j =>
              \/ events[c][i].att < events[c][j].att
              \/ /\ events[c][i].att = events[c][j].att
                 /\ events[c][i].idx < events[c][j].idx
    /\ \A i \in 1..Len(out) :
          /\ out[i].src \in 1..lineIdx
          /\ processLine(body[out[i].src]).emit
          /\ out[i].text = processLine(body[out[i].src]).text
          /\ \A j \in 1..Len(out) : i < j => out[i].src < out[j].src

\* A streaming call ended after both of its chunks were yielded.
C19_Witness ==
    \E c \in Calls :
        /\ pc[c] = "done" /\ path[c] = "streaming"
        /\ Len(events[c]) = 2
        /\ events[c][1].idx = 1 /\ events[c][2].idx = 2

(***************************************************************************)
(* The proxy generator and the resources it holds                          *)
(***************************************************************************)
\* line 145: the generator is suspended at the yield of the line it took
\* last (the consumer holds the event and has not pulled again)
atYield == Len(out) > 0 /\ out[Len(out)].src = lineIdx

\* line 145: the consumer stops at a yield (return() on the generator): the
\* for-await loop is left; neither the readline interface nor its input is
\* closed by that
ProxyConsumerStops ==
    /\ pcProxy = "reading"
    /\ atYield
    /\ pcProxy' = "stopped"
    /\ UNCHANGED <<body, response, lineIdx, out, proxyErr, rlOpen, respOpen, post,
                   credVars, lifeVars, pureVars, deployVars>>

\* lines 123-128: the response stream fails while it is still open. A failed
\* stream is destroyed; nothing closes the readline interface. A generator
\* that waits for a line (line 128) gets the error at once and raises it; a
\* generator suspended at a yield, or one that has left the loop, is not
\* touched by the failure.
ProxyStreamError ==
    /\ pcProxy \in {"reading", "done", "stopped"}
    /\ respOpen
    /\ respOpen' = FALSE
    /\ \/ /\ pcProxy = "reading"
          /\ pcProxy' = "failed"
          /\ proxyErr' = TRUE
       \/ /\ pcProxy \in {"done", "stopped"} \/ atYield
          /\ UNCHANGED <<pcProxy, proxyErr>>
    /\ UNCHANGED <<body, response, lineIdx, out, rlOpen, post, credVars, lifeVars,
                   pureVars, deployVars>>

\* line 128: the consumer pulls again after the stream failed under a
\* suspended generator; the lines the interface had already emitted are
\* still taken by ProxyReadLine, then the pull raises the stored error
ProxyErrorRaised ==
    /\ pcProxy = "reading"
    /\ ~respOpen /\ rlOpen
    /\ pcProxy' = "failed"
    /\ proxyErr' = TRUE
    /\ UNCHANGED <<body, response, lineIdx, out, rlOpen, respOpen, post, credVars,
                   lifeVars, pureVars, deployVars>>

NextProxyLife ==
    \/ NextProxy
    \/ ProxyConsumerStops
    \/ ProxyStreamError
    \/ ProxyErrorRaised

SpecProxyLife == InitProxy /\ [][NextProxyLife]_vars

\* C20: when the generator has ended, by completion, by the consumer
\* stopping or by an error, neither the readline interface nor the response
\* stream it was given is still open.
C20_ReleasedOnEveryExit ==
    pcProxy \in {"done", "stopped", "failed"} => (~rlOpen /\ ~respOpen)

\* The completion request failed: the POST raised or was answered with a
\* status other than 200.
PostFailed ==
    \/ post.kind = "postThrew"
    \/ post.kind = "status" /\ post.status # 200

\* C21: when the POST raised or was answered with a status other than 200,
\* requestCompletion gave no stream and raised nothing, and the generator
\* ended normally without an event and without an error.
C21_FailedRequestIsEmptyStream ==
    PostFailed =>
        /\ response = "undefined"
        /\ pcProxy = "done"
        /\ out = <<>>
        /\ ~proxyErr
        /\ lineIdx = 0

\* The POST raised after the URL was resolved from a list fetched by the
\* call itself: the generator is done with nothing yielded.
C21_Witness ==
    /\ post.kind = "postThrew"
    /\ getCalls[ownCall].http /\ getCalls[ownCall].ret = List(<<"d1">>)
    /\ pcProxy = "done" /\ response = "undefined" /\ out = <<>> /\ ~proxyErr

(***************************************************************************)
(* The deployment list: constructions, calls and answers                  *)
(***************************************************************************)
\* part_000 lines 15-21 and 29: a holder of a proxy instance calls
\* getDeployments; a proxy exists once a construction took the fallback
GetDeploymentsStarts ==
    /\ \E i \in 1..Len(getCalls) : getCalls[i].by = "setupAiCore"
    /\ Len(getCalls) < MaxGets
    /\ getCalls' = Append(getCalls, startedCall("caller", deployments, everStored))
    /\ UNCHANGED <<deployments, everStored, credVars, proxyVars, lifeVars, pureVars>>

\* The process before any adapter is constructed, without a credentials
\* file.
InitDeployments ==
    /\ credsFile = [exists |-> FALSE, text |-> Garbage]
    /\ buildCode \in BOOLEAN
    /\ env = EnvUnset
    /\ adapters = 0
    /\ last = NoSetup
    /\ NoDeploymentCall
    /\ ProxyOff /\ LifeOff /\ PureOff

NextDeployments ==
    \/ setupAiCore
    \/ GetDeploymentsStarts
    \/ \E i \in 1..Len(getCalls) : GetDeploymentsAnswered(i)
    \/ \E i \in 1..Len(getCalls) : GetDeploymentsRaises(i)

SpecDeployments == InitDeployments /\ [][NextDeployments]_vars

\* C22 as stated: a call that starts after a non-empty list has been stored
\* issues no request and returns a stored non-empty list; a call that
\* starts before any non-empty list was stored issues its own GET.
C22_NoRequestAfterFirstStore ==
    \A i \in 1..Len(getCalls) :
        /\ getCalls[i].afterStore =>
               /\ ~getCalls[i].http
               /\ getCalls[i].pc = "returned"
               /\ getCalls[i].ret = getCalls[i].atStart
               /\ NonEmpty(getCalls[i].ret)
        /\ ~getCalls[i].afterStore => getCalls[i].http

\* C22 as amended: a call that starts while a non-empty list is stored
\* issues no request and returns that list; a call that starts while the
\* field holds an empty list or nothing issues its own GET, whatever was
\* stored before.
C22_NoRequestWhileListStored ==
    \A i \in 1..Len(getCalls) :
        /\ NonEmpty(getCalls[i].atStart) =>
               /\ ~getCalls[i].http
               /\ getCalls[i].pc = "returned"
               /\ getCalls[i].ret = getCalls[i].atStart
        /\ ~NonEmpty(getCalls[i].atStart) => getCalls[i].http

\* The warm-up of a construction and a call overlapping it each issued a
\* GET while the list was empty, and a third call found the stored list
\* and returned it without a request.
C22_Witness ==
    /\ Len(getCalls) = 3
    /\ getCalls[1].by = "setupAiCore" /\ getCalls[1].http
    /\ getCalls[2].by = "caller" /\ getCalls[2].http
    /\ ~NonEmpty(getCalls[2].atStart)
    /\ getCalls[1].pc = "returned" /\ getCalls[2].pc = "get"
    /\ getCalls[3].pc = "returned" /\ ~getCalls[3].http
    /\ getCalls[3].ret = List(<<"d1">>)

=============================================================================
